---- MODULE Spec2Model ----
(***************************************************************************)
(* Model of the orchestrator backend router (OrchestratorPlugin.ts):       *)
(* the permission gate (authorize, filterAuthorizedWorkflowIds,            *)
(* filterAuthorizedWorkflows), the audit helpers and the registered        *)
(* request handlers.                                                       *)
(*                                                                         *)
(* Two specifications share the variables:                                 *)
(*   Spec      one request travelling through a registered handler;       *)
(*   SpecGate  the permission gate functions applied to bounded inputs,    *)
(*             with the concurrent evaluations of Promise.all settling in  *)
(*             any order.                                                  *)
(***************************************************************************)
EXTENDS Integers, Sequences, FiniteSets, TLC

\* ------------------------------------------------------------------ bounds
MaxCandidates == 2      \* longest anyOfPermissions list given to authorize
MaxIds == 2             \* longest workflowIds list given to the filter
MaxTicks == 4           \* refresh ticks of the workflow cache that are followed

\* -------------------------------------------------------------- world data
WorkflowIds == {"wfA", "wfB"}
InstanceIds == {"i1", "i2"}
Requests == {"r1", "r2"}
\* requests are followed one at a time, except under SpecConcurrent
Sequential == {"r1"}

\* assessedInstance.instance.processId: the workflow that owns an instance
processId(i) == IF i = "i1" THEN "wfA" ELSE "wfB"

\* the workflow ids known to the engine, as v2.getWorkflowIds() lists them
allWorkflowIds == <<"wfA", "wfB">>

\* ------------------------------------------------------------- permissions
orchestratorWorkflowPermission == [action |-> "read", scope |-> "any"]
orchestratorWorkflowSpecificPermission(workflowId) ==
    [action |-> "read", scope |-> workflowId]
orchestratorWorkflowUsePermission == [action |-> "use", scope |-> "any"]
orchestratorWorkflowUseSpecificPermission(workflowId) ==
    [action |-> "use", scope |-> workflowId]

orchestratorPermissions ==
    {orchestratorWorkflowPermission, orchestratorWorkflowUsePermission}
    \cup {orchestratorWorkflowSpecificPermission(w) : w \in WorkflowIds}
    \cup {orchestratorWorkflowUseSpecificPermission(w) : w \in WorkflowIds}

ALLOW == "ALLOW"
DENY == "DENY"

VARIABLES
    grants,     \* permissions the permission policy grants to the caller
    pc,         \* pc[r]: position of request r in its handler
    op,         \* op[r]: the operation request r was dispatched to
    params,     \* params[r]: path / query parameters of request r
    local,      \* local[r]: the handler's local constants
    trace,      \* trace[r]: everything request r did, in order
    gFn,        \* gate function under evaluation
    gPerms,     \* authorize: anyOfPermissions
    gIds,       \* filterAuthorizedWorkflowIds: workflowIds
    gPc,        \* position inside the gate function
    gSettled,   \* authorize: outcome of each concurrent evaluation;
                \* filterAuthorizedWorkflowIds: outcome of each call made
    gOrder,     \* authorize: indices in the order their evaluation settled
    gCalls,     \* permission-service calls made, in order (request lists)
    gResult,    \* value returned by the gate function
    gWorkflows, \* filterAuthorizedWorkflows: the overview list result given
    gReturned,  \* filterAuthorizedWorkflows: the overview list result returned
    cacheScheduled,  \* the workflow cache's refresh task is scheduled
    cacheRefreshing, \* a refresh tick is fetching from the metadata source
    cacheSnapshot,   \* the overviews the cache holds
    cacheTicks,      \* refresh ticks started so far
    cacheFetched,    \* the last successful refresh: whether there was one,
                     \* what it fetched, the failed refreshes since
    cacheRead,       \* what the last getOverviews gave its reader
    schemaProps,     \* getWorkflowInputSchemaById: keys of inputSchema.properties
    instanceData,    \* getWorkflowInputSchemaById: workflowData of the instance
    responseData     \* getWorkflowInputSchemaById: 'data' of the response

reqVars == <<pc, op, params, local, trace>>
gateVars == <<gFn, gPerms, gIds, gPc, gSettled, gOrder, gCalls, gResult,
             gWorkflows, gReturned>>
dataVars == <<schemaProps, instanceData, responseData>>
cacheVars == <<cacheScheduled, cacheRefreshing, cacheSnapshot, cacheTicks,
               cacheFetched, cacheRead>>
vars == <<grants, pc, op, params, local, trace,
          gFn, gPerms, gIds, gPc, gSettled, gOrder, gCalls, gResult,
          gWorkflows, gReturned,
          cacheScheduled, cacheRefreshing, cacheSnapshot, cacheTicks,
          cacheFetched, cacheRead, schemaProps, instanceData, responseData>>

\* --------------------------------------------------------------- sequences
RECURSIVE SeqsUpTo(_, _)
SeqsUpTo(S, n) ==
    IF n = 0 THEN {<<>>}
    ELSE LET shorter == SeqsUpTo(S, n - 1)
         IN shorter \cup {Append(s, x) : s \in {t \in shorter : Len(t) = n - 1}, x \in S}

Min(S) == CHOOSE x \in S : \A y \in S : x <= y

Range(f) == {f[i] : i \in DOMAIN f}

\* Array.prototype.filter with an index predicate: keeps the order
RECURSIVE FilterIdx(_, _, _)
FilterIdx(s, keep, i) ==
    IF i > Len(s) THEN <<>>
    ELSE (IF i \in keep THEN <<s[i]>> ELSE <<>>) \o FilterIdx(s, keep, i + 1)

\* ------------------------------------------------------ permission service
\* permissionsSvc.authorize(requests, {credentials}): batched, one decision
\* per request, in request order
permissionsSvcAuthorize(requests) ==
    [i \in 1..Len(requests) |->
        [result |-> IF requests[i] \in grants THEN ALLOW ELSE DENY]]

\* -------------------------------------------------------- permission gate
\* mutant: only the first decision is looked at
findAllow_first(decisions) ==
    IF Len(decisions) > 0 /\ decisions[1].result = ALLOW THEN 1 ELSE 0

\* decisions.find(d => d.result === ALLOW): index of the first ALLOW, 0 if none
findAllow(decisions) ==
    LET hits == {i \in 1..Len(decisions) : decisions[i].result = ALLOW}
    IN IF hits = {} THEN 0 ELSE Min(hits)

\* mutant: the DENY default is lost
authorizeReturn_allow(decisions) == [result |-> ALLOW]

\* authorize, once every evaluation has returned its decision
authorizeReturn(decisions) ==
    IF findAllow(decisions) = 0 THEN [result |-> DENY]
    ELSE decisions[findAllow(decisions)]

\* decisionResponses.map(d => d[0]) over one single-request call per candidate
authorizeDecisions(anyOfPermissions) ==
    [i \in 1..Len(anyOfPermissions) |->
        permissionsSvcAuthorize(<<anyOfPermissions[i]>>)[1]]

\* authorize as one step: failed = the candidates whose evaluation errors.
\* Promise.all rejects when any evaluation rejects.
authorize(anyOfPermissions, failed) ==
    IF failed # {} THEN [status |-> "threw", result |-> "none"]
    ELSE [status |-> "returned",
          result |-> authorizeReturn(authorizeDecisions(anyOfPermissions)).result]

\* workflowIds.map(id => ({permission: specific(id)}))
specificWorkflowRequests(workflowIds) ==
    [i \in 1..Len(workflowIds) |->
        orchestratorWorkflowSpecificPermission(workflowIds[i])]

\* mutant: the first decision is applied to every id
filterByDecisions_first(workflowIds, decisions) ==
    FilterIdx(workflowIds,
              {i \in 1..Len(workflowIds) : decisions[1].result = ALLOW}, 1)

\* workflowIds.filter((_, idx) => decisions[idx].result === ALLOW)
filterByDecisions(workflowIds, decisions) ==
    FilterIdx(workflowIds,
              {i \in 1..Len(workflowIds) : decisions[i].result = ALLOW}, 1)

\* mutant: the short-circuit on the generic permission is lost
seesAllWorkflows_never(decisions) == FALSE

\* the generic decision: genericWorkflowPermissionDecision[0].result === ALLOW
seesAllWorkflows(decisions) == decisions[1].result = ALLOW

\* filterAuthorizedWorkflowIds as one step; failAt = 0 (no evaluation error),
\* 1 (the generic call errors) or 2 (the batched call errors).
\* calls = the request lists handed to the permission service, in order.
filterAuthorizedWorkflowIds(workflowIds, failAt) ==
    LET generic == <<orchestratorWorkflowPermission>>
        batch == specificWorkflowRequests(workflowIds)
    IN IF failAt = 1
       THEN [status |-> "threw", ids |-> <<>>, calls |-> <<generic>>]
       ELSE IF seesAllWorkflows(permissionsSvcAuthorize(generic))
       THEN [status |-> "returned", ids |-> workflowIds, calls |-> <<generic>>]
       ELSE IF failAt = 2
       THEN [status |-> "threw", ids |-> <<>>, calls |-> <<generic, batch>>]
       ELSE [status |-> "returned",
             ids |-> filterByDecisions(workflowIds, permissionsSvcAuthorize(batch)),
             calls |-> <<generic, batch>>]

\* what v2.getWorkflowsOverview can resolve with: the overviews of any of
\* the known workflows, in any order
OverviewLists ==
    {s \in SeqsUpTo(WorkflowIds, MaxIds) :
        \A i, j \in 1..Len(s) : s[i] = s[j] => i = j}

\* a WorkflowOverviewDTO: the workflow's id and what is known about it
overviewOf(workflowId) ==
    [workflowId |-> workflowId, name |-> workflowId \o " overview"]

overviewsOf(workflowIds) ==
    [i \in 1..Len(workflowIds) |-> overviewOf(workflowIds[i])]

\* overviews.map(w => w.workflowId)
workflowIdsOf(overviews) ==
    [i \in 1..Len(overviews) |-> overviews[i].workflowId]

\* a WorkflowOverviewListResultDTO: hasOverviews = FALSE stands for a result
\* without 'overviews'
WorkflowOverviewListResults ==
    {[hasOverviews |-> TRUE, overviews |-> overviewsOf(ids), paginationInfo |-> p] :
        ids \in OverviewLists, p \in {"page 1", "page 2"}}
    \cup {[hasOverviews |-> FALSE, overviews |-> <<>>, paginationInfo |-> p] :
            p \in {"page 1", "page 2"}}

\* mutant: only 'overviews' is carried over to the result
keepAuthorized_overviewsOnly(workflows, authorizedWorkflowIds) ==
    [hasOverviews |-> TRUE,
     overviews |-> SelectSeq(workflows.overviews,
                             LAMBDA w : w.workflowId \in Range(authorizedWorkflowIds)),
     paginationInfo |-> "none"]

\* {...workflows, overviews: workflows.overviews.filter(w =>
\*     authorizedWorkflowIds.includes(w.workflowId))}
keepAuthorized(workflows, authorizedWorkflowIds) ==
    [workflows EXCEPT !.overviews =
        SelectSeq(@, LAMBDA w : w.workflowId \in Range(authorizedWorkflowIds))]

\* mutant: the fetched overviews are returned as they are
filterAuthorizedWorkflows_unfiltered(workflows, failAt) ==
    [status |-> "returned", workflows |-> workflows, calls |-> <<>>]

\* filterAuthorizedWorkflows; calls = the request lists handed to the
\* permission service, in order
filterAuthorizedWorkflows(workflows, failAt) ==
    IF ~workflows.hasOverviews
    THEN [status |-> "returned", workflows |-> workflows, calls |-> <<>>]
    ELSE LET authorized == filterAuthorizedWorkflowIds(
                               workflowIdsOf(workflows.overviews), failAt)
         IN IF authorized.status = "threw"
            THEN [status |-> "threw", workflows |-> workflows,
                  calls |-> authorized.calls]
            ELSE [status |-> "returned",
                  workflows |-> keepAuthorized(workflows, authorized.ids),
                  calls |-> authorized.calls]

\* ------------------------------------------- the gate, evaluation by evaluation
NoResult == [status |-> "none", result |-> "none", ids |-> <<>>, from |-> 0]

NoLocal == [workflowId |-> "none", ids |-> <<>>, flag |-> FALSE]

IdleRequests ==
    /\ pc = [r \in Requests |-> "idle"]
    /\ op = [r \in Requests |-> "none"]
    /\ params = [r \in Requests |-> [workflowId |-> "none", instanceId |-> "none"]]
    /\ local = [r \in Requests |-> NoLocal]
    /\ trace = [r \in Requests |-> <<>>]

\* no overview list result given or returned
NoWorkflows == [hasOverviews |-> FALSE, overviews |-> <<>>, paginationInfo |-> "none"]

IdleGate ==
    /\ gFn = "none" /\ gPerms = <<>> /\ gIds = <<>> /\ gPc = "idle"
    /\ gSettled = <<>> /\ gOrder = <<>> /\ gCalls = <<>> /\ gResult = NoResult
    /\ gWorkflows = NoWorkflows /\ gReturned = NoWorkflows

\* new WorkflowCacheService(...): nothing scheduled, nothing fetched, no reader
NoRead == [status |-> "none", overviews |-> <<>>, at |-> 0]

IdleCache ==
    /\ cacheScheduled = FALSE /\ cacheRefreshing = FALSE
    /\ cacheSnapshot = <<>> /\ cacheTicks = 0
    /\ cacheFetched = [refreshed |-> FALSE, overviews |-> <<>>, failed |-> 0]
    /\ cacheRead = NoRead

\* no input schema response under construction
NoData == [status |-> "none", data |-> <<>>]

IdleData ==
    /\ schemaProps = {} /\ instanceData = NoData /\ responseData = NoData

\* a gate function is called with some arguments by some caller
InitGate ==
    /\ grants \in SUBSET orchestratorPermissions
    /\ IdleRequests
    /\ IdleCache
    /\ IdleData
    /\ gFn \in {"authorize", "filterAuthorizedWorkflowIds", "filterAuthorizedWorkflows"}
    /\ gPerms \in IF gFn = "authorize"
                  THEN SeqsUpTo(orchestratorPermissions, MaxCandidates)
                  ELSE {<<>>}
    /\ gIds \in IF gFn = "filterAuthorizedWorkflowIds"
                THEN SeqsUpTo(WorkflowIds, MaxIds)
                ELSE {<<>>}
    /\ gWorkflows \in IF gFn = "filterAuthorizedWorkflows"
                      THEN WorkflowOverviewListResults
                      ELSE {NoWorkflows}
    /\ gReturned = NoWorkflows
    /\ gPc = "called"
    /\ gSettled = <<>> /\ gOrder = <<>> /\ gCalls = <<>> /\ gResult = NoResult

\* anyOfPermissions.map(permission => permissionsSvc.authorize([{permission}]))
\* starts one evaluation per candidate before any of them settles
authorizeCall ==
    /\ gFn = "authorize" /\ gPc = "called"
    /\ gCalls' = [i \in 1..Len(gPerms) |-> <<gPerms[i]>>]
    /\ gSettled' = [i \in 1..Len(gPerms) |-> "pending"]
    /\ gPc' = "awaiting"
    /\ UNCHANGED <<grants, reqVars, cacheVars, dataVars, gWorkflows, gReturned,
                 gFn, gPerms, gIds, gOrder, gResult>>

\* one pending evaluation settles: with its decision, or with an error
evaluationSettles ==
    /\ gFn = "authorize" /\ gPc = "awaiting"
    /\ \E i \in 1..Len(gPerms) :
        /\ gSettled[i] = "pending"
        /\ \E outcome \in {permissionsSvcAuthorize(gCalls[i])[1].result, "error"} :
              gSettled' = [gSettled EXCEPT ![i] = outcome]
        /\ gOrder' = Append(gOrder, i)
    /\ UNCHANGED <<grants, reqVars, cacheVars, dataVars, gWorkflows, gReturned,
                 gFn, gPerms, gIds, gPc, gCalls, gResult>>

\* mutant: Promise.allSettled, an errored evaluation counts as settled
promiseAllFulfilled_settled(settled) ==
    \A i \in 1..Len(settled) : settled[i] # "pending"

\* mutant: Promise.any, fulfilled as soon as one evaluation decides ALLOW
promiseAllFulfilled_any(settled) ==
    \/ \E i \in 1..Len(settled) : settled[i] = ALLOW
    \/ \A i \in 1..Len(settled) : settled[i] \in {ALLOW, DENY}

\* Promise.all is fulfilled when every evaluation is fulfilled
promiseAllFulfilled(settled) ==
    \A i \in 1..Len(settled) : settled[i] \in {ALLOW, DENY}

\* mutant: the decisions are collected in the order the evaluations completed
decisionResponses_completionOrder(settled) ==
    [k \in 1..Len(gOrder) |-> [result |-> settled[gOrder[k]], from |-> gOrder[k]]]

\* await Promise.all(...): the decisions in the order of the candidates,
\* each tagged with the index of the candidate it belongs to
decisionResponses(settled) ==
    [i \in 1..Len(settled) |-> [result |-> settled[i], from |-> i]]

\* Promise.all is rejected as soon as one evaluation is rejected
promiseAllRejected(settled) ==
    \E i \in 1..Len(settled) : settled[i] = "error"

authorizeRejects ==
    /\ gFn = "authorize" /\ gPc = "awaiting"
    /\ promiseAllRejected(gSettled)
    /\ gPc' = "threw"
    /\ gResult' = [status |-> "threw", result |-> "none", ids |-> <<>>, from |-> 0]
    /\ UNCHANGED <<grants, reqVars, cacheVars, dataVars, gWorkflows, gReturned,
                 gFn, gPerms, gIds, gSettled, gOrder, gCalls>>

authorizeReturns ==
    /\ gFn = "authorize" /\ gPc = "awaiting"
    /\ promiseAllFulfilled(gSettled)
    /\ gPc' = "returned"
    /\ LET decision == authorizeReturn(decisionResponses(gSettled))
       IN gResult' = [status |-> "returned",
                      result |-> decision.result,
                      ids |-> <<>>,
                      from |-> IF "from" \in DOMAIN decision THEN decision.from ELSE 0]
    /\ UNCHANGED <<grants, reqVars, cacheVars, dataVars, gWorkflows, gReturned,
                 gFn, gPerms, gIds, gSettled, gOrder, gCalls>>

\* filterAuthorizedWorkflowIds up to its first await and the test that follows
filterGenericCall ==
    /\ gFn = "filterAuthorizedWorkflowIds" /\ gPc = "called"
    /\ gCalls' = Append(gCalls, <<orchestratorWorkflowPermission>>)
    /\ \/ /\ gSettled' = Append(gSettled, "error")
          /\ gPc' = "threw"
          /\ gResult' = [status |-> "threw", result |-> "none", ids |-> <<>>, from |-> 0]
       \/ /\ seesAllWorkflows(permissionsSvcAuthorize(<<orchestratorWorkflowPermission>>))
          /\ gSettled' = Append(gSettled, "returned")
          /\ gPc' = "returned"
          /\ gResult' = [status |-> "returned", result |-> "none", ids |-> gIds, from |-> 0]
       \/ /\ ~seesAllWorkflows(permissionsSvcAuthorize(<<orchestratorWorkflowPermission>>))
          /\ gSettled' = Append(gSettled, "returned")
          /\ gPc' = "specific"
          /\ gResult' = gResult
    /\ UNCHANGED <<grants, reqVars, cacheVars, dataVars, gWorkflows, gReturned,
                 gFn, gPerms, gIds, gOrder>>

\* the batched call for the specific permissions and the final filter
filterBatchCall ==
    /\ gFn = "filterAuthorizedWorkflowIds" /\ gPc = "specific"
    /\ gCalls' = Append(gCalls, specificWorkflowRequests(gIds))
    /\ \/ /\ gSettled' = Append(gSettled, "error")
          /\ gPc' = "threw"
          /\ gResult' = [status |-> "threw", result |-> "none", ids |-> <<>>, from |-> 0]
       \/ /\ gSettled' = Append(gSettled, "returned")
          /\ gPc' = "returned"
          /\ gResult' = [status |-> "returned", result |-> "none",
                         ids |-> filterByDecisions(gIds,
                                    permissionsSvcAuthorize(specificWorkflowRequests(gIds))),
                         from |-> 0]
    /\ UNCHANGED <<grants, reqVars, cacheVars, dataVars, gWorkflows, gReturned,
                 gFn, gPerms, gIds, gOrder>>

\* filterAuthorizedWorkflows from call to return; failAt = the call to the
\* permission service that errors, if any
filterWorkflowsCall ==
    /\ gFn = "filterAuthorizedWorkflows" /\ gPc = "called"
    /\ \E failAt \in 0..2 :
         LET filtered == filterAuthorizedWorkflows(gWorkflows, failAt)
         IN /\ gCalls' = filtered.calls
            /\ gPc' = filtered.status
            /\ gResult' = [status |-> filtered.status, result |-> "none",
                           ids |-> <<>>, from |-> 0]
            /\ gReturned' = IF filtered.status = "returned" THEN filtered.workflows
                            ELSE NoWorkflows
            /\ gSettled' = [i \in 1..Len(filtered.calls) |->
                               IF i = failAt THEN "error" ELSE "returned"]
    /\ UNCHANGED <<grants, reqVars, cacheVars, dataVars, gWorkflows,
                   gFn, gPerms, gIds, gOrder>>

NextGate ==
    \/ filterWorkflowsCall
    \/ authorizeCall
    \/ evaluationSettles
    \/ authorizeRejects
    \/ authorizeReturns
    \/ filterGenericCall
    \/ filterBatchCall

SpecGate == InitGate /\ [][NextGate]_vars

\* ------------------------------------------------------------ trace events
\* One record shape for everything a request does:
\*   audit     auditLogger.auditLog: name = eventName, stage, status,
\*             http = response.status recorded in the event (0: none),
\*             err = name of the error in 'errors'
\*   perm      one permissionsSvc.authorize call: perms = its request list,
\*             status = "returned" | "failed"
\*   gate      the value a gate function handed back to the handler:
\*             name = the function, status = ALLOW | DENY | "filtered" | "threw",
\*             data = the ids returned by a filter
\*   facade    a call on routerApi.v2 / orchestratorService: name = method,
\*             data = the ids passed, status = "ok" | "failed"
\*   external  a call of an external route on discovery / fetch / scaffolder
\*   response  res.json / res.send: http = status code, name = kind of body,
\*             data = workflow and instance ids whose data the body carries,
\*             status = "sent" | "headersSent" (the write threw)
\*   next      next(error): err = the error forwarded to the transport
\*   close     the transport drops the connection of an already answered request
Event == [kind |-> "", name |-> "", stage |-> "", status |-> "", http |-> 0,
          err |-> "none", perms |-> <<>>, data |-> <<>>, result |-> "none"]

auditLog(eventName, stage, status, http, err) ==
    [Event EXCEPT !.kind = "audit", !.name = eventName, !.stage = stage,
                  !.status = status, !.http = http, !.err = err]

permCall(requests, status) ==
    [Event EXCEPT !.kind = "perm", !.name = "permissionsSvc.authorize",
                  !.perms = requests, !.status = status]

gateResult(fn, status, ids) ==
    [Event EXCEPT !.kind = "gate", !.name = fn, !.status = status, !.data = ids]

facadeCall(method, args, status) ==
    [Event EXCEPT !.kind = "facade", !.name = method, !.data = args, !.status = status]

\* a facade call that resolved, with what it resolved to
facadeResult(method, args, result) ==
    [facadeCall(method, args, "ok") EXCEPT !.result = result]

externalCall(name, status) ==
    [Event EXCEPT !.kind = "external", !.name = name, !.status = status]

next(err) == [Event EXCEPT !.kind = "next", !.err = err]

headersSent(tr) ==
    \E i \in 1..Len(tr) : tr[i].kind = "response" /\ tr[i].status = "sent"

\* res.status(http).json(body): the first write is sent, a later one throws
\* ERR_HTTP_HEADERS_SENT
resJson(tr, http, body, ids) ==
    [Event EXCEPT !.kind = "response", !.http = http, !.name = body, !.data = ids,
                  !.status = IF headersSent(tr) THEN "headersSent" ELSE "sent"]

\* ----------------------------------------------------------- audit helpers
\* the 'start' event every handler emits first
startEvent(eventName) == auditLog(eventName, "start", "succeeded", 0, "none")

\* mutant: the denial is audited with the stage of auditLogRequestError
manageDenyAuthorization_completion(endpointName) ==
    [kind |-> "audit", name |-> endpointName \o "EndpointHit",
     stage |-> "completion", status |-> "failed", http |-> 403,
     err |-> "UnauthorizedError", perms |-> <<>>, data |-> <<>>,
     result |-> "none"]

\* manageDenyAuthorization: the audit event; the function then throws
\* an UnauthorizedError
manageDenyAuthorization(endpointName) ==
    auditLog(endpointName \o "EndpointHit", "authorization", "failed", 403,
             "UnauthorizedError")

auditLogRequestError(err, endpointName) ==
    auditLog(endpointName \o "EndpointHit", "completion", "failed", 500, err)

\* mutant: the catch block forwards the error without auditing it
handlerCatch_noAudit(err, endpointName) ==
    <<[kind |-> "next", name |-> "", stage |-> "", status |-> "", http |-> 0,
       err |-> err, perms |-> <<>>, data |-> <<>>,
     result |-> "none"]>>

\* catch (error) { auditLogRequestError(...); next(error); } of a handler
handlerCatch(err, endpointName) ==
    <<auditLogRequestError(err, endpointName), next(err)>>

\* mutant: the router forwards the error without auditing it
genericErrorHandler_noAudit(err) == <<next(err)>>

\* .catch of router.use around openApiBackend.handleRequest: an error that
\* escaped the handler
genericErrorHandler(err) ==
    <<auditLog("genericErrorHandler", "completion", "failed", 0, err), next(err)>>

\* middleware.error() of the backend MiddlewareFactory: status of the error
\* response (UnauthorizedError is a NotAllowedError)
errorStatus(err) == IF err = "UnauthorizedError" THEN 403 ELSE 500

\* ------------------------------------------------------------ handler steps
\* mutant: one trace shared by all requests in flight
Go_sharedTrace(r, events, nextPc, loc) ==
    /\ trace' = [q \in Requests |->
                    IF q = r \/ pc[q] \notin {"idle", "done", "unhandled"}
                    THEN trace[q] \o events ELSE trace[q]]
    /\ pc' = [pc EXCEPT ![r] = nextPc]
    /\ local' = [local EXCEPT ![r] = loc]
    /\ UNCHANGED <<grants, op, params, gateVars, cacheVars, dataVars>>

Go(r, events, nextPc, loc) ==
    /\ trace' = [trace EXCEPT ![r] = @ \o events]
    /\ pc' = [pc EXCEPT ![r] = nextPc]
    /\ local' = [local EXCEPT ![r] = loc]
    /\ UNCHANGED <<grants, op, params, gateVars, cacheVars, dataVars>>

\* the router hands a request to the handler registered for its operation;
\* the handler runs up to its first await
handleRequest(r, operation, workflowId, instanceId, events, nextPc) ==
    /\ pc[r] = "idle"
    /\ op' = [op EXCEPT ![r] = operation]
    /\ params' = [params EXCEPT ![r] =
                    [workflowId |-> workflowId, instanceId |-> instanceId]]
    /\ trace' = [trace EXCEPT ![r] = @ \o events]
    /\ pc' = [pc EXCEPT ![r] = nextPc]
    /\ UNCHANGED <<grants, local, gateVars, cacheVars, dataVars>>

At(r, operation, label) == op[r] = operation /\ pc[r] = label

\* mutant: the DENY test never fires
denied_never(decision) == FALSE

\* if (decision.result === AuthorizeResult.DENY)
denied(decision) == decision.result = DENY

\* the error leaves the point where it was thrown: into the handler's catch
\* block when thrown inside its try, else out of the handler to the router
thrown(err, endpointName, inTry) ==
    IF inTry THEN handlerCatch(err, endpointName) ELSE genericErrorHandler(err)

\* const decision = await authorize(...); if DENY manageDenyAuthorization(...)
\* okEvents: what the handler does after an ALLOW before its next await
authorizeStep(r, anyOfPermissions, inTry, okEvents, nextPc, loc) ==
    \E failed \in SUBSET (1..Len(anyOfPermissions)) :
        LET decision == authorize(anyOfPermissions, failed)
            calls == [i \in 1..Len(anyOfPermissions) |->
                        permCall(<<anyOfPermissions[i]>>,
                                 IF i \in failed THEN "failed" ELSE "returned")]
        IN IF decision.status = "threw"
           THEN Go(r, calls \o <<gateResult("authorize", "threw", <<>>)>>
                        \o thrown("PermissionsServiceError", op[r], inTry),
                   "forwarded", local[r])
           ELSE IF denied(decision)
           THEN Go(r, calls \o <<gateResult("authorize", decision.result, <<>>),
                                 manageDenyAuthorization(op[r])>>
                        \o thrown("UnauthorizedError", op[r], inTry),
                   "forwarded", local[r])
           ELSE Go(r, calls \o <<gateResult("authorize", decision.result, <<>>)>> \o okEvents,
                   nextPc, loc)

\* a call on the facade whose failure is caught by the handler
\* (try/catch or .catch): audit the error and forward it
facadeStep(r, method, args, okEvents, okPc, loc) ==
    \/ Go(r, <<facadeCall(method, args, "ok")>> \o okEvents, okPc, loc)
    \/ Go(r, <<facadeCall(method, args, "failed")>> \o handlerCatch("Error", op[r]),
          "forwarded", local[r])

\* router.use(middleware.error()): answers a forwarded error, unless the
\* request was answered already
errorMiddleware(r) ==
    /\ pc[r] = "forwarded"
    /\ LET err == trace[r][Len(trace[r])].err
       IN Go(r, IF headersSent(trace[r])
                THEN <<[Event EXCEPT !.kind = "close", !.err = err]>>
                ELSE <<resJson(trace[r], errorStatus(err), "error", <<>>)>>,
             "done", local[r])

\* the permission-service calls a filter made; the one at failAt errored
permCalls(calls, failAt) ==
    [i \in 1..Len(calls) |->
        permCall(calls[i], IF i = failAt THEN "failed" ELSE "returned")]


readPermissions(workflowId) ==
    <<orchestratorWorkflowPermission,
      orchestratorWorkflowSpecificPermission(workflowId)>>

usePermissions(workflowId) ==
    <<orchestratorWorkflowUsePermission,
      orchestratorWorkflowUseSpecificPermission(workflowId)>>

\* ---------------------------------------------------- registered handlers
getWorkflowsOverview(r) ==
    \/ handleRequest(r, "getWorkflowsOverview", "none", "none",
                     <<startEvent("getWorkflowsOverview")>>, "fetch")
    \/ /\ At(r, "getWorkflowsOverview", "fetch")
       /\ \E hasOverviews \in BOOLEAN :
          \E overviews \in (IF hasOverviews THEN OverviewLists ELSE {<<>>}) :
            facadeStep(r, "getWorkflowsOverview", <<>>, <<>>, "filter",
                       [local[r] EXCEPT !.flag = hasOverviews, !.ids = overviews])
    \/ /\ At(r, "getWorkflowsOverview", "filter")
       /\ \E failAt \in 0..2 :
            LET workflows == filterAuthorizedWorkflows(
                    [hasOverviews |-> local[r].flag,
                     overviews |-> overviewsOf(local[r].ids),
                     paginationInfo |-> "page 1"],
                    failAt)
                calls == permCalls(workflows.calls, failAt)
            IN IF workflows.status = "threw"
               THEN Go(r, calls \o <<gateResult("filterAuthorizedWorkflows", "threw", <<>>)>>
                            \o handlerCatch("PermissionsServiceError", op[r]),
                       "forwarded", local[r])
               ELSE Go(r, calls \o <<gateResult("filterAuthorizedWorkflows", "filtered",
                                        workflowIdsOf(workflows.workflows.overviews)),
                                     resJson(trace[r], 200, "overviews",
                                        workflowIdsOf(workflows.workflows.overviews))>>,
                       "done", local[r])

\* mutant: the start event is written once the gate has answered
getWorkflowSourceById_startAfterAuthorize(r) ==
    \/ \E workflowId \in WorkflowIds :
         handleRequest(r, "getWorkflowSourceById", workflowId, "none", <<>>, "authorize")
    \/ /\ At(r, "getWorkflowSourceById", "authorize")
       /\ authorizeStep(r, readPermissions(params[r].workflowId), FALSE,
                        <<startEvent("getWorkflowSourceById")>>, "call", local[r])
    \/ /\ At(r, "getWorkflowSourceById", "call")
       /\ facadeStep(r, "getWorkflowSourceById", <<params[r].workflowId>>,
                     <<resJson(trace[r], 200, "source", <<params[r].workflowId>>)>>,
                     "done", local[r])

getWorkflowSourceById(r) ==
    \/ \E workflowId \in WorkflowIds :
         handleRequest(r, "getWorkflowSourceById", workflowId, "none",
                       <<startEvent("getWorkflowSourceById")>>, "authorize")
    \/ /\ At(r, "getWorkflowSourceById", "authorize")
       /\ authorizeStep(r, readPermissions(params[r].workflowId), FALSE, <<>>,
                        "call", local[r])
    \/ /\ At(r, "getWorkflowSourceById", "call")
       /\ facadeStep(r, "getWorkflowSourceById", <<params[r].workflowId>>,
                     <<resJson(trace[r], 200, "source", <<params[r].workflowId>>)>>,
                     "done", local[r])

executeWorkflow(r) ==
    \/ \E workflowId \in WorkflowIds :
         handleRequest(r, "executeWorkflow", workflowId, "none",
                       <<startEvent("executeWorkflow")>>, "authorize")
    \/ /\ At(r, "executeWorkflow", "authorize")
       /\ authorizeStep(r, usePermissions(params[r].workflowId), FALSE, <<>>,
                        "call", local[r])
    \/ /\ At(r, "executeWorkflow", "call")
       /\ facadeStep(r, "executeWorkflow", <<params[r].workflowId>>,
                     <<resJson(trace[r], 200, "execution", <<params[r].workflowId>>)>>,
                     "done", local[r])

retriggerInstance(r) ==
    \/ \E workflowId \in WorkflowIds, instanceId \in InstanceIds :
         handleRequest(r, "retriggerInstance", workflowId, instanceId,
                       <<startEvent("retriggerInstance")>>, "authorize")
    \/ /\ At(r, "retriggerInstance", "authorize")
       /\ authorizeStep(r, usePermissions(params[r].workflowId), FALSE, <<>>,
                        "call", local[r])
    \/ /\ At(r, "retriggerInstance", "call")
       /\ facadeStep(r, "retriggerInstance",
                     <<params[r].workflowId, params[r].instanceId>>,
                     <<resJson(trace[r], 200, "retrigger", <<params[r].instanceId>>)>>,
                     "done", local[r])

\* mutant: the overview is fetched before the caller is authorized
getWorkflowOverviewById_fetchFirst(r) ==
    \/ \E workflowId \in WorkflowIds :
         handleRequest(r, "getWorkflowOverviewById", workflowId, "none",
                       <<startEvent("getWorkflowOverviewById")>>, "call")
    \/ /\ At(r, "getWorkflowOverviewById", "call")
       /\ facadeStep(r, "getWorkflowOverviewById", <<params[r].workflowId>>,
                     <<>>, "authorize", local[r])
    \/ /\ At(r, "getWorkflowOverviewById", "authorize")
       /\ authorizeStep(r, readPermissions(params[r].workflowId), FALSE,
                        <<resJson(trace[r], 200, "overview", <<params[r].workflowId>>)>>,
                        "done", local[r])

getWorkflowOverviewById(r) ==
    \/ \E workflowId \in WorkflowIds :
         handleRequest(r, "getWorkflowOverviewById", workflowId, "none",
                       <<startEvent("getWorkflowOverviewById")>>, "authorize")
    \/ /\ At(r, "getWorkflowOverviewById", "authorize")
       /\ authorizeStep(r, readPermissions(params[r].workflowId), FALSE, <<>>,
                        "call", local[r])
    \/ /\ At(r, "getWorkflowOverviewById", "call")
       /\ facadeStep(r, "getWorkflowOverviewById", <<params[r].workflowId>>,
                     <<resJson(trace[r], 200, "overview", <<params[r].workflowId>>)>>,
                     "done", local[r])

\* mutant: the statuses are read permission-gated like the other reads
getWorkflowStatuses_gated(r) ==
    \/ handleRequest(r, "getWorkflowStatuses", "none", "none",
                     <<startEvent("getWorkflowStatuses")>>, "authorize")
    \/ /\ At(r, "getWorkflowStatuses", "authorize")
       /\ authorizeStep(r, <<orchestratorWorkflowPermission>>, TRUE, <<>>,
                        "call", local[r])
    \/ /\ At(r, "getWorkflowStatuses", "call")
       /\ facadeStep(r, "getWorkflowStatuses", <<>>,
                     <<resJson(trace[r], 200, "statuses", <<>>)>>,
                     "done", local[r])

getWorkflowStatuses(r) ==
    \/ handleRequest(r, "getWorkflowStatuses", "none", "none",
                     <<startEvent("getWorkflowStatuses")>>, "call")
    \/ /\ At(r, "getWorkflowStatuses", "call")
       /\ facadeStep(r, "getWorkflowStatuses", <<>>,
                     <<resJson(trace[r], 200, "statuses", <<>>)>>,
                     "done", local[r])

getWorkflowInstances(r) ==
    \/ \E workflowId \in WorkflowIds :
         handleRequest(r, "getWorkflowInstances", workflowId, "none",
                       <<startEvent("getWorkflowInstances")>>, "authorize")
    \/ /\ At(r, "getWorkflowInstances", "authorize")
       /\ authorizeStep(r, readPermissions(params[r].workflowId), FALSE, <<>>,
                        "call", local[r])
    \/ /\ At(r, "getWorkflowInstances", "call")
       /\ facadeStep(r, "getInstances", <<params[r].workflowId>>,
                     <<resJson(trace[r], 200, "instances", <<params[r].workflowId>>)>>,
                     "done", local[r])

\* mutant: the instances of every workflow are requested
getInstances_unfiltered(r) ==
    \/ handleRequest(r, "getInstances", "none", "none",
                     <<startEvent("getInstances"),
                       facadeCall("getWorkflowIds", <<>>, "ok")>>, "filter")
    \/ /\ At(r, "getInstances", "filter")
       /\ \E failAt \in 0..2 :
            LET authorized == filterAuthorizedWorkflowIds(allWorkflowIds, failAt)
                calls == permCalls(authorized.calls, failAt)
            IN IF authorized.status = "threw"
               THEN Go(r, calls \o <<gateResult("filterAuthorizedWorkflowIds", "threw", <<>>)>>
                            \o handlerCatch("PermissionsServiceError", op[r]),
                       "forwarded", local[r])
               ELSE Go(r, calls \o <<gateResult("filterAuthorizedWorkflowIds", "filtered",
                                                authorized.ids)>>,
                       "call", [local[r] EXCEPT !.ids = authorized.ids])
    \/ /\ At(r, "getInstances", "call")
       /\ facadeStep(r, "getInstances", allWorkflowIds,
                     <<resJson(trace[r], 200, "instances", allWorkflowIds)>>,
                     "done", local[r])
getInstances(r) ==
    \/ handleRequest(r, "getInstances", "none", "none",
                     <<startEvent("getInstances"),
                       facadeCall("getWorkflowIds", <<>>, "ok")>>, "filter")
    \/ /\ At(r, "getInstances", "filter")
       /\ \E failAt \in 0..2 :
            LET authorized == filterAuthorizedWorkflowIds(allWorkflowIds, failAt)
                calls == permCalls(authorized.calls, failAt)
            IN IF authorized.status = "threw"
               THEN Go(r, calls \o <<gateResult("filterAuthorizedWorkflowIds", "threw", <<>>)>>
                            \o handlerCatch("PermissionsServiceError", op[r]),
                       "forwarded", local[r])
               ELSE Go(r, calls \o <<gateResult("filterAuthorizedWorkflowIds", "filtered",
                                                authorized.ids)>>,
                       "call", [local[r] EXCEPT !.ids = authorized.ids])
    \/ /\ At(r, "getInstances", "call")
       /\ facadeStep(r, "getInstances", local[r].ids,
                     <<resJson(trace[r], 200, "instances", local[r].ids)>>,
                     "done", local[r])
\* mutant: the fetched instance is written to the response before the gate
\* is consulted
getInstanceById_respondFirst(r) ==
    \/ \E instanceId \in InstanceIds :
         handleRequest(r, "getInstanceById", "none", instanceId,
                       <<startEvent("getInstanceById")>>, "fetch")
    \/ /\ At(r, "getInstanceById", "fetch")
       /\ facadeStep(r, "getInstanceById", <<params[r].instanceId>>,
                     <<resJson(trace[r], 200, "instance", <<params[r].instanceId>>)>>,
                     "authorize",
                     [local[r] EXCEPT !.workflowId = processId(params[r].instanceId)])
    \/ /\ At(r, "getInstanceById", "authorize")
       /\ authorizeStep(r, readPermissions(local[r].workflowId), TRUE, <<>>,
                        "done", local[r])

getInstanceById(r) ==
    \/ \E instanceId \in InstanceIds :
         handleRequest(r, "getInstanceById", "none", instanceId,
                       <<startEvent("getInstanceById")>>, "fetch")
    \/ /\ At(r, "getInstanceById", "fetch")
       /\ facadeStep(r, "getInstanceById", <<params[r].instanceId>>, <<>>,
                     "authorize",
                     [local[r] EXCEPT !.workflowId = processId(params[r].instanceId)])
    \/ /\ At(r, "getInstanceById", "authorize")
       /\ authorizeStep(r, readPermissions(local[r].workflowId), TRUE,
                        <<resJson(trace[r], 200, "instance", <<params[r].instanceId>>)>>,
                        "done", local[r])

abortWorkflow(r) ==
    \/ \E instanceId \in InstanceIds :
         handleRequest(r, "abortWorkflow", "none", instanceId,
                       <<startEvent("abortWorkflow")>>, "fetch")
    \/ /\ At(r, "abortWorkflow", "fetch")
       /\ facadeStep(r, "getInstanceById", <<params[r].instanceId>>, <<>>,
                     "authorize",
                     [local[r] EXCEPT !.workflowId = processId(params[r].instanceId)])
    \/ /\ At(r, "abortWorkflow", "authorize")
       /\ authorizeStep(r, usePermissions(local[r].workflowId), TRUE, <<>>,
                        "call", local[r])
    \/ /\ At(r, "abortWorkflow", "call")
       /\ facadeStep(r, "abortWorkflow",
                     <<local[r].workflowId, params[r].instanceId>>,
                     <<resJson(trace[r], 200, "abort", <<params[r].instanceId>>)>>,
                     "done", local[r])

\* what fetchWorkflowDefinition can resolve with: nothing, a definition
\* without dataInputSchema, a definition with one
Definitions == {"undefined", "noDataInputSchema", "dataInputSchema"}

\* mutant: a definition without dataInputSchema is treated like any other
afterDefinition_noCheck(definition, instanceId) ==
    IF definition = "undefined" THEN "throw"
    ELSE IF instanceId # "none" THEN "variables"
    ELSE "schema"

\* what the handler does once fetchWorkflowDefinition has resolved: throw,
\* answer 200 {} or go on to the instance variables / the input schema
afterDefinition(definition, instanceId) ==
    IF definition = "undefined" THEN "throw"
    ELSE IF definition = "noDataInputSchema" THEN "empty"
    ELSE IF instanceId # "none" THEN "variables"
    ELSE "schema"

getWorkflowInputSchemaById(r) ==
    \/ \E workflowId \in WorkflowIds, instanceId \in InstanceIds \cup {"none"} :
         handleRequest(r, "getWorkflowInputSchemaById", workflowId, instanceId,
                       <<startEvent("getWorkflowInputSchemaById")>>, "authorize")
    \/ /\ At(r, "getWorkflowInputSchemaById", "authorize")
       /\ authorizeStep(r, readPermissions(params[r].workflowId), TRUE, <<>>,
                        "info", local[r])
    \/ /\ At(r, "getWorkflowInputSchemaById", "info")
       /\ \/ facadeStep(r, "fetchWorkflowInfo", <<params[r].workflowId>>, <<>>,
                        "definition", local[r])
          \* no workflow info, or no serviceUrl in it: throw new Error(...)
          \/ Go(r, <<facadeCall("fetchWorkflowInfo", <<params[r].workflowId>>, "ok")>>
                     \o handlerCatch("Error", op[r]),
                "forwarded", local[r])
    \/ /\ At(r, "getWorkflowInputSchemaById", "definition")
       /\ \/ Go(r, <<facadeCall("fetchWorkflowDefinition", <<params[r].workflowId>>,
                                "failed")>> \o handlerCatch("Error", op[r]),
                "forwarded", local[r])
          \/ \E definition \in Definitions :
               LET fetched == facadeResult("fetchWorkflowDefinition",
                                           <<params[r].workflowId>>, definition)
                   todo == afterDefinition(definition, params[r].instanceId)
               IN CASE todo = "throw" ->
                         Go(r, <<fetched>> \o handlerCatch("Error", op[r]),
                            "forwarded", local[r])
                    [] todo = "empty" ->
                         Go(r, <<fetched, resJson(trace[r], 200, "empty", <<>>)>>,
                            "done", local[r])
                    [] OTHER -> Go(r, <<fetched>>, todo, local[r])
    \/ /\ At(r, "getWorkflowInputSchemaById", "variables")
       \* flag: the instance has workflow data
       /\ \E workflowData \in BOOLEAN :
            facadeStep(r, "fetchInstanceVariables", <<params[r].instanceId>>, <<>>,
                       "schema", [local[r] EXCEPT !.flag = workflowData])
    \/ /\ At(r, "getWorkflowInputSchemaById", "schema")
       /\ LET call(status) ==
                facadeCall("getWorkflowInputSchemaById", <<params[r].workflowId>>, status)
              answered == resJson(trace[r], 500, "message", <<>>)
          IN \* .catch: audit, answer 500; workflowInfo is undefined, so the
             \* handler goes on to res.status(200).json({}), which throws
             \/ Go(r, <<call("failed"), auditLogRequestError("Error", op[r]), answered,
                        resJson(Append(trace[r], answered), 200, "empty", <<>>)>>
                        \o handlerCatch("ERR_HTTP_HEADERS_SENT", op[r]),
                   "forwarded", local[r])
             \* no inputSchema, or no properties in it
             \/ Go(r, <<call("ok"), resJson(trace[r], 200, "empty", <<>>)>>,
                   "done", local[r])
             \/ Go(r, <<call("ok"),
                        resJson(trace[r], 200, "inputSchema",
                                <<params[r].workflowId>> \o
                                (IF local[r].flag THEN <<params[r].instanceId>>
                                 ELSE <<>>))>>,
                   "done", local[r])

\* --------------------------------------------------------- external routes
\* router.get('/actions'): nothing catches a rejected await
actions(r) ==
    \/ handleRequest(r, "actions", "none", "none",
                     <<startEvent("ActionsEndpointHit")>>, "fetch")
    \/ /\ At(r, "actions", "fetch")
       /\ \/ \E status \in {200, 500} :
               Go(r, <<externalCall("fetch", "ok"),
                       resJson(trace[r], status, "actions", <<>>)>>,
                  "done", local[r])
          \/ Go(r, <<externalCall("fetch", "failed")>>, "unhandled", local[r])

\* router.post('/actions/:actionId')
actionsActionId(r) ==
    \/ handleRequest(r, "actionsActionId", "none", "none",
                     <<startEvent("ActionsActionIdEndpointHit")>>, "execute")
    \/ /\ At(r, "actionsActionId", "execute")
       /\ \/ Go(r, <<externalCall("executeAction", "ok"),
                     resJson(trace[r], 200, "action", <<>>)>>,
                "done", local[r])
          \/ Go(r, <<externalCall("executeAction", "failed")>>, "unhandled", local[r])

\* ----------------------------------------------------------- workflow cache
\* workflowCacheService.schedule({scheduler}): the recurring refresh begins
schedule ==
    /\ ~cacheScheduled
    /\ cacheScheduled' = TRUE
    /\ UNCHANGED <<grants, reqVars, gateVars, dataVars, cacheRefreshing, cacheSnapshot,
                   cacheTicks, cacheFetched, cacheRead>>

\* the scheduler fires the refresh task: the fetch from the metadata source
\* starts; the snapshot stays as it is while the fetch is under way
refreshTick ==
    /\ cacheScheduled /\ ~cacheRefreshing
    /\ cacheTicks < MaxTicks
    /\ cacheRefreshing' = TRUE
    /\ cacheTicks' = cacheTicks + 1
    /\ UNCHANGED <<grants, reqVars, gateVars, dataVars, cacheScheduled, cacheSnapshot,
                   cacheFetched, cacheRead>>

\* the fetch resolved: the snapshot is replaced as a whole
refreshSucceeds ==
    /\ cacheRefreshing
    /\ \E overviews \in OverviewLists :
         /\ cacheSnapshot' = overviews
         /\ cacheFetched' = [refreshed |-> TRUE, overviews |-> overviews, failed |-> 0]
    /\ cacheRefreshing' = FALSE
    /\ UNCHANGED <<grants, reqVars, gateVars, dataVars, cacheScheduled, cacheTicks, cacheRead>>

\* mutant: a failed refresh clears the snapshot
refreshFails_clears ==
    /\ cacheRefreshing
    /\ cacheRefreshing' = FALSE
    /\ cacheSnapshot' = <<>>
    /\ cacheFetched' = [cacheFetched EXCEPT !.failed = @ + 1]
    /\ UNCHANGED <<grants, reqVars, gateVars, dataVars, cacheScheduled, cacheTicks, cacheRead>>

\* the fetch rejected: the error is logged, the snapshot is kept
refreshFails ==
    /\ cacheRefreshing
    /\ cacheRefreshing' = FALSE
    /\ cacheFetched' = [cacheFetched EXCEPT !.failed = @ + 1]
    /\ UNCHANGED <<grants, reqVars, gateVars, dataVars, cacheScheduled, cacheSnapshot,
                   cacheTicks, cacheRead>>

\* number of refreshes that have come to an end
refreshesEnded == cacheTicks - (IF cacheRefreshing THEN 1 ELSE 0)

\* getOverviews(): the current snapshot, whatever the refresh task is doing
getOverviews ==
    /\ cacheRead' = [status |-> "returned", overviews |-> cacheSnapshot,
                     at |-> refreshesEnded]
    /\ UNCHANGED <<grants, reqVars, gateVars, dataVars, cacheScheduled, cacheRefreshing,
                   cacheSnapshot, cacheTicks, cacheFetched>>

InitCache ==
    /\ grants = {}
    /\ IdleRequests
    /\ IdleGate
    /\ IdleCache
    /\ IdleData

NextCache ==
    \/ schedule
    \/ refreshTick
    \/ refreshSucceeds
    \/ refreshFails
    \/ getOverviews

SpecCache == InitCache /\ [][NextCache]_vars

\* ------------------------------------ getWorkflowInputSchemaById: inputData
\* property names of an input schema and of an instance's workflow data
PropertyKeys == {"a", "b"}

\* JSON values an instance's workflow data can hold, written as in JSON
JsonValues == {"false", "0", "\"\"", "\"x\""}

\* !value is false
truthy(value) == value \notin {"false", "0", "\"\"", "null"}

\* Object.keys(inputSchemaProps).filter(k => k in workflowData)
\*     .reduce((result, k) => { if (!workflowData[k]) return result;
\*                              result[k] = workflowData[k]; return result }, {})
inputData(inputSchemaProps, workflowData) ==
    [k \in {key \in inputSchemaProps \cap DOMAIN workflowData : truthy(workflowData[key])}
        |-> workflowData[k]]

\* a request is at the point where the input schema has been fetched, with
\* or without the workflow data of an instance
InitInputData ==
    /\ grants = {}
    /\ IdleRequests
    /\ IdleGate
    /\ IdleCache
    /\ schemaProps \in SUBSET PropertyKeys
    /\ instanceData \in
          {[status |-> "undefined", data |-> <<>>]}
          \cup {[status |-> "defined", data |-> d] :
                  d \in UNION {[keys -> JsonValues] : keys \in SUBSET PropertyKeys}}
    /\ responseData = NoData

\* if (workflowData) { inputData = ... }  res.status(200).json({inputSchema,
\* data: inputData}): an undefined 'data' is left out of the JSON body
respondWithInputData ==
    /\ responseData = NoData
    /\ responseData' =
          IF instanceData.status = "defined"
          THEN [status |-> "present", data |-> inputData(schemaProps, instanceData.data)]
          ELSE [status |-> "absent", data |-> <<>>]
    /\ UNCHANGED <<grants, reqVars, gateVars, cacheVars, schemaProps, instanceData>>

NextInputData == respondWithInputData

SpecInputData == InitInputData /\ [][NextInputData]_vars

\* ------------------------------------------------- dispatch-level answers
\* openApiBackend.handleRequest finds the request invalid
validationFail(r) ==
    handleRequest(r, "validationFail", "none", "none",
                  <<resJson(trace[r], 400, "err", <<>>)>>, "done")

\* no operation of the API document matches the path
notFound(r) ==
    handleRequest(r, "notFound", "none", "none",
                  <<resJson(trace[r], 404, "err", <<>>)>>, "done")

\* the operation has no registered handler
notImplemented(r) ==
    handleRequest(r, "notImplemented", "none", "none",
                  <<resJson(trace[r], 500, "err", <<>>)>>, "done")

\* ------------------------------------------------------------ specification
Init ==
    /\ grants \in SUBSET orchestratorPermissions
    /\ IdleRequests
    /\ IdleGate
    /\ IdleCache
    /\ IdleData

Next ==
    \E r \in Sequential :
        \/ getWorkflowsOverview(r)
        \/ getWorkflowSourceById(r)
        \/ executeWorkflow(r)
        \/ retriggerInstance(r)
        \/ getWorkflowOverviewById(r)
        \/ getWorkflowStatuses(r)
        \/ getWorkflowInputSchemaById(r)
        \/ getWorkflowInstances(r)
        \/ getInstances(r)
        \/ getInstanceById(r)
        \/ abortWorkflow(r)
        \/ actions(r)
        \/ actionsActionId(r)
        \/ validationFail(r)
        \/ notFound(r)
        \/ notImplemented(r)
        \/ errorMiddleware(r)

Spec == Init /\ [][Next]_vars

\* ------------------------------------------------------ concurrent requests
\* the grants followed while two requests are in flight
ConcurrentGrants ==
    {{},
     {orchestratorWorkflowSpecificPermission("wfA"), orchestratorWorkflowUsePermission},
     {orchestratorWorkflowPermission, orchestratorWorkflowUseSpecificPermission("wfB")}}

InitConcurrent ==
    /\ grants \in ConcurrentGrants
    /\ IdleRequests
    /\ IdleGate
    /\ IdleCache
    /\ IdleData

\* every request in flight may take the next step of its handler
NextConcurrent ==
    \E r \in Requests :
        \/ getWorkflowsOverview(r)
        \/ getWorkflowSourceById(r)
        \/ executeWorkflow(r)
        \/ retriggerInstance(r)
        \/ getWorkflowOverviewById(r)
        \/ getWorkflowStatuses(r)
        \/ getWorkflowInputSchemaById(r)
        \/ getWorkflowInstances(r)
        \/ getInstances(r)
        \/ getInstanceById(r)
        \/ abortWorkflow(r)
        \/ actions(r)
        \/ actionsActionId(r)
        \/ validationFail(r)
        \/ notFound(r)
        \/ notImplemented(r)
        \/ errorMiddleware(r)

SpecConcurrent == InitConcurrent /\ [][NextConcurrent]_vars

\* ------------------------------------------------------------------ claims
Mutations == {"executeWorkflow", "retriggerInstance", "abortWorkflow"}
IsMutation(e) == e.kind = "facade" /\ e.name \in Mutations
IsGate(e) == e.kind = "gate"
GateDecided(e) == e.kind = "gate" /\ e.status # "threw"
GateAllowed(e) == e.kind = "gate" /\ e.status = ALLOW
GateDenied(e) == e.kind = "gate" /\ e.status = DENY
IsFailedAudit(e) == e.kind = "audit" /\ e.status = "failed"
IsSent(e) == e.kind = "response" /\ e.status = "sent"

Count(tr, P(_)) == Len(SelectSeq(tr, P))
Some(tr, P(_)) == \E i \in 1..Len(tr) : P(tr[i])
Before(tr, i, P(_)) == \E j \in 1..(i - 1) : P(tr[j])
Ended(r) == pc[r] \in {"done", "unhandled"}
Holds(permissions) == \E i \in 1..Len(permissions) : permissions[i] \in grants

\* C1: the engine's execute / retrigger / abort is called only after the gate
\* returned ALLOW in the same request; an abort by a caller holding neither
\* the generic nor the specific use permission of the owning workflow never
\* reaches the engine and, once the gate has answered, ends with HTTP 403
\* and a failed audit event.
C1_EngineOnlyAfterAllow ==
    \A r \in Requests :
        /\ \A i \in 1..Len(trace[r]) :
              IsMutation(trace[r][i]) => Before(trace[r], i, GateAllowed)
        /\ (op[r] = "abortWorkflow"
              /\ ~Holds(usePermissions(processId(params[r].instanceId))))
           => /\ ~Some(trace[r], LAMBDA e : e.kind = "facade" /\ e.name = "abortWorkflow")
              /\ (Ended(r) /\ Some(trace[r], GateDecided))
                 => /\ Some(trace[r], LAMBDA e : IsSent(e) /\ e.http = 403)
                    /\ ~Some(trace[r], LAMBDA e : IsSent(e) /\ e.http # 403)
                    /\ Some(trace[r], IsFailedAudit)

C1_Witness ==
    \E r \in Requests :
        /\ op[r] = "abortWorkflow" /\ params[r].instanceId = "i1"
        /\ ~Holds(usePermissions("wfA"))
        /\ Ended(r)
        /\ Some(trace[r], LAMBDA e : IsSent(e) /\ e.http = 403)

\* C2: authorize returns ALLOW exactly when some candidate, evaluated on its
\* own by the permission service, decides ALLOW, and DENY exactly when every
\* candidate decides DENY (the empty list included).
C2_AuthorizeAnyOf ==
    (gFn = "authorize" /\ gPc = "returned")
    => LET alone(i) == permissionsSvcAuthorize(<<gPerms[i]>>)[1].result
       IN /\ gResult.result = ALLOW <=> \E i \in 1..Len(gPerms) : alone(i) = ALLOW
          /\ gResult.result = DENY <=> \A i \in 1..Len(gPerms) : alone(i) = DENY

C2_Witness ==
    /\ gFn = "authorize" /\ gPc = "returned" /\ Len(gPerms) = 2
    /\ gPerms[1] \notin grants /\ gPerms[2] \in grants
    /\ gResult.result = ALLOW

\* C3: in getInstanceById, abortWorkflow and retriggerInstance every
\* permission that is checked is the generic one or the one of the workflow
\* owning the instance, and the instance is read, aborted or retriggered
\* only for a caller holding the generic permission or that of the owner.
C3_InstanceScopedToOwner ==
    \A r \in Requests :
        op[r] \in {"getInstanceById", "abortWorkflow", "retriggerInstance"}
        => LET owner == processId(params[r].instanceId)
               needed == IF op[r] = "getInstanceById" THEN readPermissions(owner)
                         ELSE usePermissions(owner)
           IN \A i \in 1..Len(trace[r]) :
                 LET e == trace[r][i]
                 IN /\ e.kind = "perm"
                       => \A k \in 1..Len(e.perms) : e.perms[k].scope \in {"any", owner}
                    /\ (IsMutation(e) \/ (IsSent(e) /\ e.http = 200))
                       => Holds(needed)

\* C4 (as stated): in every registered operation the gate's decision is
\* obtained before any call on the facade.
C4_GateBeforeAnyAccess ==
    \A r \in Requests : \A i \in 1..Len(trace[r]) :
        trace[r][i].kind = "facade" => Before(trace[r], i, GateDecided)

\* the read a handler needs to know what to ask the gate
PreliminaryRead(operation, e) ==
    \/ operation = "getWorkflowsOverview" /\ e.name = "getWorkflowsOverview"
    \/ operation = "getInstances" /\ e.name = "getWorkflowIds"
    \/ operation \in {"getInstanceById", "abortWorkflow"} /\ e.name = "getInstanceById"

\* C4 (amended): the gate's decision is obtained before every mutation,
\* before every 200 response, and before every facade call other than the
\* preliminary read of getWorkflowsOverview, getInstances, getInstanceById
\* and abortWorkflow; getWorkflowStatuses never consults the gate.
C4_GateBeforeAccessAmended ==
    \A r \in Requests : \A i \in 1..Len(trace[r]) :
        LET e == trace[r][i]
        IN IF op[r] = "getWorkflowStatuses"
           THEN e.kind \notin {"gate", "perm"}
           ELSE /\ e.kind = "facade"
                   => \/ Before(trace[r], i, GateDecided)
                      \/ PreliminaryRead(op[r], e) /\ ~IsMutation(e)
                /\ (IsSent(e) /\ e.http = 200 /\ op[r] \notin {"actions", "actionsActionId"})
                   => Before(trace[r], i, GateDecided)

C4_Witness ==
    \E r \in Requests :
        /\ op[r] = "abortWorkflow" /\ pc[r] = "done"
        /\ Some(trace[r], LAMBDA e : e.kind = "facade" /\ e.name = "abortWorkflow")
        /\ Some(trace[r], LAMBDA e : IsSent(e) /\ e.http = 200)

\* answered by the dispatcher itself, no handler runs
DispatchErrors == {"validationFail", "notFound", "notImplemented"}
IsStart(e) == e.kind = "audit" /\ e.stage = "start"
IsTerminal(e) == e.kind = "audit" /\ e.stage # "start"
IsCompletionFailed(e) == IsFailedAudit(e) /\ e.stage = "completion"
IsAuthorizationFailed(e) == IsFailedAudit(e) /\ e.stage = "authorization"
IsNext(e) == e.kind = "next"

C6_GenericShortCircuit ==
    (gFn = "filterAuthorizedWorkflowIds" /\ orchestratorWorkflowPermission \in grants)
    => /\ gPc \in {"called", "returned", "threw"}
       /\ gPc # "called" => gCalls = << <<orchestratorWorkflowPermission>> >>
       /\ gPc = "returned" => gResult.ids = gIds

C6_Witness ==
    /\ gFn = "filterAuthorizedWorkflowIds" /\ gPc = "returned"
    /\ orchestratorWorkflowPermission \in grants
    /\ gIds = <<"wfB", "wfB">>
    /\ orchestratorWorkflowSpecificPermission("wfB") \notin grants
    /\ gResult.ids = gIds

\* C7: for a caller without the generic permission the filter returns the
\* ids whose specific permission is granted, in input order, after exactly
\* one batched call whose i-th request is the specific permission of the
\* i-th id.
C7_SpecificSubset ==
    (gFn = "filterAuthorizedWorkflowIds" /\ gPc = "returned"
        /\ orchestratorWorkflowPermission \notin grants)
    => /\ gResult.ids = SelectSeq(gIds,
              LAMBDA w : orchestratorWorkflowSpecificPermission(w) \in grants)
       /\ Len(gCalls) = 2
       /\ Len(gCalls[2]) = Len(gIds)
       /\ \A i \in 1..Len(gIds) :
             gCalls[2][i] = orchestratorWorkflowSpecificPermission(gIds[i])

C7_Witness ==
    /\ gFn = "filterAuthorizedWorkflowIds" /\ gPc = "returned"
    /\ orchestratorWorkflowPermission \notin grants
    /\ gIds = <<"wfB", "wfA">>
    /\ gResult.ids = <<"wfA">>

\* C8 (as stated): a denial is recorded as exactly one failed audit event,
\* of stage completion and error UnauthorizedError, emitted before the
\* request is rejected; start and completion are the only stages.
C8_DenialOneCompletionEvent ==
    \A r \in Requests :
        (Ended(r) /\ Some(trace[r], GateDenied))
        => /\ \A i \in 1..Len(trace[r]) :
                 trace[r][i].kind = "audit"
                 => trace[r][i].stage \in {"start", "completion"}
           /\ Count(trace[r], IsFailedAudit) = 1
           /\ \A i \in 1..Len(trace[r]) :
                 IsFailedAudit(trace[r][i])
                 => /\ trace[r][i].stage = "completion"
                    /\ trace[r][i].err = "UnauthorizedError"
                    /\ ~Before(trace[r], i, IsNext)

\* C8 (amended): a denial is recorded as exactly one audit event of stage
\* authorization (the stages being start, authorization and completion),
\* status failed, response status 403 and error UnauthorizedError, emitted
\* right after the decision and before the request is rejected; the
\* rejection is audited by exactly one more failed event, of stage
\* completion, with the same error.
C8_DenialAuthorizationEvent ==
    \A r \in Requests : \A i \in 1..Len(trace[r]) :
        /\ trace[r][i].kind = "audit"
           => trace[r][i].stage \in {"start", "authorization", "completion"}
        /\ IsAuthorizationFailed(trace[r][i])
           => /\ i > 1 /\ GateDenied(trace[r][i - 1])
        /\ GateDenied(trace[r][i])
           => /\ Len(trace[r]) >= i + 3
              /\ IsAuthorizationFailed(trace[r][i + 1])
              /\ trace[r][i + 1].err = "UnauthorizedError"
              /\ trace[r][i + 1].http = 403
              /\ IsCompletionFailed(trace[r][i + 2])
              /\ trace[r][i + 2].err = "UnauthorizedError"
              /\ IsNext(trace[r][i + 3])
              /\ trace[r][i + 3].err = "UnauthorizedError"
              /\ Count(trace[r], IsFailedAudit) = 2
              /\ Count(trace[r], IsNext) = 1

C8_Witness ==
    \E r \in Requests :
        /\ pc[r] = "done" /\ Some(trace[r], GateDenied)
        /\ Some(trace[r], LAMBDA e : IsAuthorizationFailed(e) /\ e.http = 403)
        /\ Some(trace[r], LAMBDA e : IsSent(e) /\ e.http = 403)

\* C9: after a DENY of the gate the handler throws at once: the denial is
\* audited and the error forwarded, no call on the facade or on an external
\* service follows, and the only response written is the transport's error
\* response, which carries no workflow or instance data.
C9_DenyShortCircuits ==
    \A r \in Requests : \A i \in 1..Len(trace[r]) :
        GateDenied(trace[r][i])
        => /\ pc[r] \in {"forwarded", "done"}
           /\ \A j \in (i + 1)..Len(trace[r]) :
                 LET e == trace[r][j]
                 IN /\ e.kind \in {"audit", "next", "response"}
                    /\ e.kind = "response"
                       => e.name = "error" /\ e.data = <<>> /\ e.http # 200
           /\ ~Before(trace[r], i, LAMBDA e : e.kind = "response")

C9_Witness ==
    \E r \in Requests :
        /\ op[r] = "getWorkflowSourceById" /\ pc[r] = "done"
        /\ Some(trace[r], GateDenied)
        /\ ~Some(trace[r], LAMBDA e : e.kind = "facade")

\* C10: an evaluation error of the permission service makes authorize and
\* filterAuthorizedWorkflowIds fail: neither returns, neither yields ALLOW,
\* DENY or an id list, also when another candidate of the same authorize
\* call decided ALLOW.
C10_EvaluationErrorPropagates ==
    /\ (\E i \in 1..Len(gSettled) : gSettled[i] = "error")
       => /\ gPc \in {"awaiting", "threw"}
          /\ gResult.result = "none" /\ gResult.ids = <<>>
          /\ gResult.status \in {"none", "threw"}
          /\ gFn = "filterAuthorizedWorkflowIds" => gPc = "threw"
    /\ gPc = "threw"
       => /\ gResult = [status |-> "threw", result |-> "none", ids |-> <<>>, from |-> 0]
          /\ \E i \in 1..Len(gSettled) : gSettled[i] = "error"

C10_Witness ==
    /\ gFn = "authorize" /\ gPc = "threw"
    /\ \E i \in 1..Len(gSettled) : gSettled[i] = ALLOW
    /\ \E i \in 1..Len(gSettled) : gSettled[i] = "error"

\* ------------------------------------------------------------------ C11
\* C11 (as stated): authorize returns ALLOW as soon as one candidate decides
\* ALLOW, without waiting for the remaining candidates: when it has returned
\* ALLOW, no evaluation settled after the first one that decided ALLOW.
C11_ReturnsAtFirstAllow ==
    (gFn = "authorize" /\ gPc = "returned" /\ gResult.result = ALLOW)
    => \A k \in 1..Len(gOrder) :
          gSettled[gOrder[k]] = ALLOW => k = Len(gOrder)

\* C11 (amended): authorize starts one evaluation per candidate in the order
\* given, and returns only once every candidate's evaluation has settled,
\* whatever the earlier ones decided.
C11_WaitsForAll ==
    /\ (gFn = "authorize" /\ gPc # "called")
       => gCalls = [i \in 1..Len(gPerms) |-> <<gPerms[i]>>]
    /\ (gFn = "authorize" /\ gPc = "returned")
       => /\ Len(gOrder) = Len(gPerms)
          /\ \A i \in 1..Len(gPerms) : gSettled[i] \in {ALLOW, DENY}

\* the first candidate decided ALLOW first, the second settled afterwards,
\* and only then did authorize return
C11_Witness ==
    /\ gFn = "authorize" /\ gPc = "returned" /\ gResult.result = ALLOW
    /\ Len(gPerms) = 2 /\ gOrder = <<1, 2>>
    /\ gSettled[1] = ALLOW /\ gSettled[2] = DENY

\* ------------------------------------------------------------------ C12
PermutationsOf(s) ==
    {q \in [1..Len(s) -> Range(s)] :
        \E f \in [1..Len(s) -> 1..Len(s)] :
            /\ \A i, j \in 1..Len(s) : f[i] = f[j] => i = j
            /\ \A i \in 1..Len(s) : q[i] = s[f[i]]}

\* C12: permuting the candidate list never changes ALLOW/DENY, and the
\* decision object returned is that of the earliest candidate in list order
\* that decided ALLOW, whatever the order in which the evaluations completed.
C12_OrderInsensitive ==
    (gFn = "authorize" /\ gPc = "returned")
    => /\ \A q \in PermutationsOf(gPerms) :
             authorize(q, {}) = [status |-> "returned", result |-> gResult.result]
       /\ LET allowing == {i \in 1..Len(gPerms) : gPerms[i] \in grants}
          IN gResult.from = IF allowing = {} THEN 0 ELSE Min(allowing)

\* both candidates are granted, the second completed first, and the decision
\* returned is the first candidate's
C12_Witness ==
    /\ gFn = "authorize" /\ gPc = "returned"
    /\ Len(gPerms) = 2 /\ gPerms[1] # gPerms[2]
    /\ gOrder = <<2, 1>>
    /\ gSettled = <<ALLOW, ALLOW>>
    /\ gResult.from = 1

\* ------------------------------------------------------------------ C13
\* the caller may see the workflow: generic read permission or the specific one
MaySee(w) ==
    \/ orchestratorWorkflowPermission \in grants
    \/ orchestratorWorkflowSpecificPermission(w) \in grants

IsOverviewsResponse(e) == e.kind = "response" /\ e.name = "overviews"

\* C13: the getWorkflowsOverview response carries in 'overviews' exactly the
\* fetched overviews whose workflow the caller may see, in their fetched order.
C13_OverviewsFiltered ==
    \A r \in Requests :
        op[r] = "getWorkflowsOverview"
        => \A k \in 1..Len(trace[r]) :
              IsOverviewsResponse(trace[r][k])
              => /\ trace[r][k].http = 200
                 /\ trace[r][k].data = SelectSeq(local[r].ids, MaySee)

\* only the specific permission for wfA is held, overviews of wfB and wfA were
\* fetched, and the response carries wfA alone
C13_Witness ==
    \E r \in Requests :
        /\ op[r] = "getWorkflowsOverview" /\ pc[r] = "done"
        /\ grants = {orchestratorWorkflowSpecificPermission("wfA")}
        /\ local[r].flag /\ local[r].ids = <<"wfB", "wfA">>
        /\ \E k \in 1..Len(trace[r]) :
              IsOverviewsResponse(trace[r][k]) /\ trace[r][k].data = <<"wfA">>

\* ------------------------------------------------------------------ C14
IsGetInstancesCall(e) == e.kind = "facade" /\ e.name = "getInstances"

\* C14: the facade's getInstances is only called with an authorization-
\* filtered id list: in the getInstances handler exactly the ids
\* filterAuthorizedWorkflowIds kept of all workflow ids, in the
\* getWorkflowInstances handler exactly [workflowId] after an ALLOW on that
\* workflow; never with an id the caller may not see.
C14_GetInstancesFilteredOnly ==
    \A r \in Requests : \A k \in 1..Len(trace[r]) :
        IsGetInstancesCall(trace[r][k])
        => /\ \A w \in Range(trace[r][k].data) : MaySee(w)
           /\ op[r] \in {"getInstances", "getWorkflowInstances"}
           /\ op[r] = "getInstances"
              => /\ trace[r][k].data = SelectSeq(allWorkflowIds, MaySee)
                 /\ \E j \in 1..(k - 1) :
                       /\ IsGate(trace[r][j])
                       /\ trace[r][j].name = "filterAuthorizedWorkflowIds"
                       /\ trace[r][j].status = "filtered"
                       /\ trace[r][j].data = trace[r][k].data
           /\ op[r] = "getWorkflowInstances"
              => /\ trace[r][k].data = <<params[r].workflowId>>
                 /\ Before(trace[r], k, GateAllowed)

\* a caller holding only the specific read permission of wfB lists instances:
\* the facade is asked for wfB alone
C14_Witness ==
    \E r \in Requests :
        /\ op[r] = "getInstances"
        /\ grants = {orchestratorWorkflowSpecificPermission("wfB")}
        /\ \E k \in 1..Len(trace[r]) :
              IsGetInstancesCall(trace[r][k]) /\ trace[r][k].data = <<"wfB">>

\* ------------------------------------------------------------------ C15
IsFacadeFailed(e) == e.kind = "facade" /\ e.status = "failed"
IsResponse(e) == e.kind = "response"
IsResponse200(e) == e.kind = "response" /\ e.http = 200

\* C15: on a failure path (a facade / metadata-source call failed) no 200
\* response is written or attempted and at most one response is attempted
\* for the request; in particular no 200 {} after the 500 of a failed
\* input-schema fetch.
C15_SingleResponseOnFailure ==
    \A r \in Requests :
        Some(trace[r], IsFacadeFailed)
        => /\ ~Some(trace[r], IsResponse200)
           /\ Count(trace[r], IsResponse) <= 1

\* ------------------------------------------------------------------ C16
\* C16: a failed facade / metadata-source call inside a registered handler
\* is caught by the handler, audited as exactly one failed completion event,
\* forwarded with next exactly once, and the failed call is not made again.
C16_FailureCaughtOnce ==
    \A r \in Requests : \A k \in 1..Len(trace[r]) :
        (IsFacadeFailed(trace[r][k]) /\ Ended(r))
        => /\ pc[r] = "done"
           /\ Count(trace[r], IsCompletionFailed) = 1
           /\ Count(trace[r], IsNext) = 1
           /\ \A j \in 1..Len(trace[r]) :
                 (trace[r][j].kind = "facade" /\ trace[r][j].name = trace[r][k].name)
                 => j = k

\* ------------------------------------------------------------------ C17
\* what the handlers do on behalf of a request besides answering it
IsRequestWork(e) ==
    \/ e.kind = "audit" /\ e.stage # "start"
    \/ e.kind \in {"perm", "gate", "facade", "external"}

\* C17: within a request the audit start event comes before every other
\* audit event (authorization failure, completion failure, generic error
\* handler) and before every permission evaluation and backend call.
C17_StartFirst ==
    \A r \in Requests : \A k \in 1..Len(trace[r]) :
        IsRequestWork(trace[r][k])
        => /\ Before(trace[r], k, IsStart)
           /\ \A j \in 1..Len(trace[r]) : IsStart(trace[r][j]) => j < k

\* a denied request: start, then the permission evaluations, then the failed
\* authorization and completion events
C17_Witness ==
    \E r \in Requests :
        /\ Ended(r)
        /\ IsStart(trace[r][1])
        /\ Some(trace[r], LAMBDA e : e.kind = "perm")
        /\ Some(trace[r], IsAuthorizationFailed)
        /\ Some(trace[r], IsCompletionFailed)

\* ------------------------------------------------------------------ C18
\* C18: a dispatch-level error is answered with a body holding 'err' and the
\* documented status: 400 for a request failing validation, 404 for an
\* unknown path, 501 for an operation that is not implemented.
C18_DispatchErrorStatus ==
    \A r \in Requests :
        op[r] \in DispatchErrors
        => /\ Len(trace[r]) = 1
           /\ IsSent(trace[r][1])
           /\ trace[r][1].name = "err"
           /\ trace[r][1].http = (CASE op[r] = "validationFail" -> 400
                                    [] op[r] = "notFound" -> 404
                                    [] op[r] = "notImplemented" -> 501)

\* ------------------------------------------------------------------ C19
IsDefinitionWithoutSchema(e) ==
    /\ e.kind = "facade" /\ e.name = "fetchWorkflowDefinition"
    /\ e.status = "ok" /\ e.result = "noDataInputSchema"

IsSchemaLookup(e) ==
    /\ e.kind = "facade"
    /\ e.name \in {"fetchInstanceVariables", "getWorkflowInputSchemaById"}

\* C19: an authorized getWorkflowInputSchemaById request whose definition
\* is found without dataInputSchema is answered 200 with body {}, and
\* neither fetchInstanceVariables nor the input-schema fetch is attempted,
\* with or without an instanceId query parameter.
C19_NoSchemaShortCircuit ==
    \A r \in Requests : \A k \in 1..Len(trace[r]) :
        IsDefinitionWithoutSchema(trace[r][k])
        => /\ Before(trace[r], k, GateAllowed)
           /\ ~Some(trace[r], IsSchemaLookup)
           /\ Len(trace[r]) = k + 1
           /\ IsSent(trace[r][k + 1])
           /\ trace[r][k + 1].http = 200 /\ trace[r][k + 1].name = "empty"
           /\ pc[r] = "done"

\* the request carries an instanceId, the definition has no dataInputSchema
\* and the answer is 200 {}
C19_Witness ==
    \E r \in Requests :
        /\ op[r] = "getWorkflowInputSchemaById" /\ pc[r] = "done"
        /\ params[r].instanceId # "none"
        /\ Some(trace[r], IsDefinitionWithoutSchema)
        /\ Some(trace[r], LAMBDA e : IsSent(e) /\ e.http = 200 /\ e.name = "empty")

\* ------------------------------------------------------------------ C20
\* C20: once the cache is scheduled and a refresh has succeeded, getOverviews
\* returns the set that refresh fetched; after any number of failed refreshes
\* since, it still returns that set, whole; no read ever throws.
C20_StaleButAvailable ==
    /\ cacheRead.status \in {"none", "returned"}
    /\ (cacheRead.status = "returned" /\ cacheRead.at = refreshesEnded)
       => cacheRead.overviews = (IF cacheFetched.refreshed
                                 THEN cacheFetched.overviews ELSE <<>>)
    /\ cacheFetched.refreshed => cacheScheduled

\* one refresh fetched wfA and wfB, two refreshes failed since, and a reader
\* still gets wfA and wfB
C20_Witness ==
    /\ cacheScheduled
    /\ cacheFetched = [refreshed |-> TRUE, overviews |-> <<"wfA", "wfB">>, failed |-> 2]
    /\ cacheRead = [status |-> "returned", overviews |-> <<"wfA", "wfB">>,
                    at |-> refreshesEnded]

\* ------------------------------------------------------------------ C21
\* everything the program holds on behalf of request r
Slice(r) == <<pc[r], op[r], params[r], local[r], trace[r]>>

\* the workflow a request's permissions are about: its path parameter, or
\* the owner of the instance it fetched
OwnWorkflows(r) == {params[r].workflowId, local[r].workflowId}

\* the authorize decision at position k of r's trace follows from the grants
\* and r's own candidates, evaluated just before it
DecidedOnOwnCandidates(r, k) ==
    /\ k > 2
    /\ \A j \in {k - 2, k - 1} :
          /\ trace[r][j].kind = "perm" /\ Len(trace[r][j].perms) = 1
          /\ trace[r][j].perms[1].scope \in OwnWorkflows(r) \cup {"any"}
    /\ trace[r][k].status = ALLOW
       <=> \E j \in {k - 2, k - 1} : trace[r][j].perms[1] \in grants

\* a step of one request leaves every other request, and the grants, as
\* they are
StepLeavesOthersAlone ==
    \A r \in Requests :
        Slice(r)' # Slice(r)
        => /\ \A q \in Requests \ {r} : Slice(q)' = Slice(q)
           /\ grants' = grants

DecisionsOnOwnCandidates ==
    \A r \in Requests : \A k \in 1..Len(trace[r]) :
        (GateDecided(trace[r][k]) /\ trace[r][k].name = "authorize")
        => DecidedOnOwnCandidates(r, k)

IsInstanceFetch(e) == e.kind = "facade" /\ e.name = "getInstanceById"
IsInstanceFetched(e) == IsInstanceFetch(e) /\ e.status = "ok"
IsPermissionEvaluation(e) == e.kind \in {"perm", "gate"}

\* C22: in getInstanceById and abortWorkflow the instance is fetched before
\* the gate is consulted, the permission evaluated is that of the fetched
\* instance's processId, a failed instance fetch ends the request with an
\* audited failure and no permission evaluation, and the instance (or the
\* abort result) reaches the response only after an ALLOW.
C22_ResolveThenAuthorize ==
    \A r \in Requests :
        op[r] \in {"getInstanceById", "abortWorkflow"}
        => LET owner == processId(params[r].instanceId)
               tr == trace[r]
           IN /\ \A k \in 1..Len(tr) :
                    /\ IsPermissionEvaluation(tr[k]) => Before(tr, k, IsInstanceFetched)
                    /\ tr[k].kind = "perm"
                       => tr[k].perms \in
                            {<<[action |-> a, scope |-> sc]>> :
                                a \in {IF op[r] = "abortWorkflow" THEN "use" ELSE "read"},
                                sc \in {"any", owner}}
                    /\ tr[k].kind = "response" /\ tr[k].http = 200
                       => Before(tr, k, GateAllowed)
                    /\ IsMutation(tr[k]) => Before(tr, k, GateAllowed)
              /\ Some(tr, LAMBDA e : IsInstanceFetch(e) /\ e.status = "failed")
                 => /\ ~Some(tr, IsPermissionEvaluation)
                    /\ Count(tr, IsCompletionFailed) = 1
                    /\ Count(tr, IsNext) = 1
                    /\ ~Some(tr, LAMBDA e : e.kind = "response" /\ e.http = 200)
              /\ Some(tr, GateDecided)
                 => Some(tr, LAMBDA e : e.kind = "perm" /\ e.perms[1].scope = owner)

\* instance i1 of wfA is fetched, the caller holds only the read permission
\* of wfA, and the instance is answered
C22_Witness ==
    \E r \in Requests :
        /\ op[r] = "getInstanceById" /\ params[r].instanceId = "i1" /\ pc[r] = "done"
        /\ grants = {orchestratorWorkflowSpecificPermission("wfA")}
        /\ Some(trace[r], LAMBDA e : IsSent(e) /\ e.http = 200 /\ e.name = "instance")

\* ------------------------------------------------------------------ C23
\* C23: when the gate decides DENY, every failure audit event of the request
\* records the denial (UnauthorizedError, response status 403); the denial
\* is not audited again as a 500 by auditLogRequestError, nor as a
\* genericErrorHandler failure.
C23_DenialAuditedAsDenialOnly ==
    \A r \in Requests :
        Some(trace[r], GateDenied)
        => \A k \in 1..Len(trace[r]) :
              IsFailedAudit(trace[r][k])
              => /\ trace[r][k].err = "UnauthorizedError"
                 /\ trace[r][k].http = 403
                 /\ trace[r][k].name # "genericErrorHandler"

\* ------------------------------------------------------------------ C24
IsVariablesFetch(e) == e.kind = "facade" /\ e.name = "fetchInstanceVariables"
IsSchemaResponse(e) == e.kind = "response" /\ e.name = "inputSchema"

\* C24: in getWorkflowInputSchemaById the variables of an instance are
\* fetched, and returned in 'data', only when the instance belongs to the
\* workflow of the path, the one the caller was authorized for.
C24_VariablesOfOwnWorkflowOnly ==
    \A r \in Requests :
        op[r] = "getWorkflowInputSchemaById"
        => \A k \in 1..Len(trace[r]) :
              /\ IsVariablesFetch(trace[r][k])
                 => \A i \in Range(trace[r][k].data) :
                       processId(i) = params[r].workflowId
              /\ IsSchemaResponse(trace[r][k])
                 => \A i \in Range(trace[r][k].data) \cap InstanceIds :
                       processId(i) = params[r].workflowId

\* ------------------------------------------------------------------ C25
\* responses the handler itself sent, the error middleware's answer to a
\* forwarded error left aside
HandlerResponses(tr) ==
    Len(SelectSeq(SubSeq(tr, 1, Min({k \in 1..Len(tr) : IsNext(tr[k])} \cup {Len(tr)})),
                  IsSent))

\* C25: a request dispatched to a registered operation or to an external
\* /actions route that has come to its end has exactly one outcome: one
\* response sent by its handler, or its error forwarded once; never none,
\* never both.
C25_ExactlyOneOutcome ==
    \A r \in Requests :
        (op[r] \notin DispatchErrors /\ Ended(r))
        => \/ HandlerResponses(trace[r]) = 1 /\ Count(trace[r], IsNext) = 0
           \/ HandlerResponses(trace[r]) = 0 /\ Count(trace[r], IsNext) = 1

\* ------------------------------------------------------------------ C26
\* the handlers that call authorize before their try block
AuthorizeOutsideTry ==
    {"getWorkflowSourceById", "executeWorkflow", "retriggerInstance",
     "getWorkflowOverviewById", "getWorkflowInstances"}

IsGenericErrorEvent(e) == e.kind = "audit" /\ e.name = "genericErrorHandler"
IsHandlerErrorEvent(e) == IsCompletionFailed(e) /\ e.name # "genericErrorHandler"
GateEscapes(e) == e.kind = "gate" /\ e.status \in {DENY, "threw"}

\* C26: an exception that escapes a registered handler (UnauthorizedError
\* or a permission-service error where authorize is called outside the try
\* block) is audited by the router as exactly one failed genericErrorHandler
\* completion event and forwarded with next exactly once; an error the
\* handler caught and forwarded itself gives no genericErrorHandler event.
C26_EscapedErrorAuditedOnce ==
    \A r \in Requests :
        LET tr == trace[r]
        IN /\ (op[r] \in AuthorizeOutsideTry /\ Some(tr, GateEscapes))
              => /\ Count(tr, IsGenericErrorEvent) = 1
                 /\ Count(tr, IsNext) = 1
                 /\ ~Some(tr, IsHandlerErrorEvent)
           /\ \A k \in 1..Len(tr) :
                 IsGenericErrorEvent(tr[k])
                 => /\ tr[k].stage = "completion" /\ tr[k].status = "failed"
                    /\ op[r] \in AuthorizeOutsideTry
                    /\ Before(tr, k, GateEscapes)
                    /\ k < Len(tr) /\ IsNext(tr[k + 1]) /\ tr[k + 1].err = tr[k].err
           /\ Some(tr, IsHandlerErrorEvent)
              => ~Some(tr, IsGenericErrorEvent) /\ (Ended(r) => Count(tr, IsNext) = 1)

\* a permission-service error escapes getWorkflowSourceById and the router
\* audits and forwards it
C26_Witness ==
    \E r \in Requests :
        /\ op[r] = "getWorkflowSourceById" /\ pc[r] = "done"
        /\ \E k \in 1..Len(trace[r]) :
              IsGenericErrorEvent(trace[r][k]) /\ trace[r][k].err = "PermissionsServiceError"
        /\ Count(trace[r], IsNext) = 1

\* ------------------------------------------------------------------ C27
\* s is t with some of its elements left out, the others in t's order
RECURSIVE IsSubsequence(_, _)
IsSubsequence(s, t) ==
    IF s = <<>> THEN TRUE
    ELSE IF t = <<>> THEN FALSE
    ELSE IF Head(s) = Head(t) THEN IsSubsequence(Tail(s), Tail(t))
    ELSE IsSubsequence(s, Tail(t))

\* C27: filterAuthorizedWorkflows changes the 'overviews' field only: the
\* other fields are returned as given, every overview kept is one of those
\* given, as it was, and a result without 'overviews' is returned as it is,
\* with no call to the permission service.
C27_OnlyOverviewsChange ==
    (gFn = "filterAuthorizedWorkflows" /\ gPc = "returned")
    => /\ DOMAIN gReturned = DOMAIN gWorkflows
       /\ \A f \in DOMAIN gWorkflows \ {"overviews"} : gReturned[f] = gWorkflows[f]
       /\ IsSubsequence(gReturned.overviews, gWorkflows.overviews)
       /\ ~gWorkflows.hasOverviews => gReturned = gWorkflows /\ gCalls = <<>>

\* two overviews were given on page 2, the caller sees wfB only: wfB's
\* overview is returned as it was, and so is the page
C27_Witness ==
    /\ gFn = "filterAuthorizedWorkflows" /\ gPc = "returned"
    /\ gWorkflows.paginationInfo = "page 2"
    /\ gWorkflows.overviews = overviewsOf(<<"wfA", "wfB">>)
    /\ gReturned.overviews = <<overviewOf("wfB")>>
    /\ gReturned.paginationInfo = "page 2"

\* ------------------------------------------------------------------ C28
\* C28: in a successful response with instance data, 'data' holds exactly the
\* keys that are properties of the input schema and keys of the workflow
\* data, each with the workflow data's value, values false, 0 and ""
\* included; without instance data, 'data' is absent.
C28_DataIsIntersection ==
    /\ responseData.status = "present"
       => /\ instanceData.status = "defined"
          /\ DOMAIN responseData.data = schemaProps \cap DOMAIN instanceData.data
          /\ \A k \in DOMAIN responseData.data :
                responseData.data[k] = instanceData.data[k]
    /\ responseData.status = "absent" => instanceData.status = "undefined"

\* ------------------------------------------------------------------ C29
\* C29: getWorkflowStatuses never consults the permission service: for every
\* caller it emits the start event and, the statuses being read, answers
\* them with 200; it never produces an UnauthorizedError or a 403.
C29_StatusesUngated ==
    \A r \in Requests :
        op[r] = "getWorkflowStatuses"
        => LET tr == trace[r]
           IN /\ IsStart(tr[1]) /\ tr[1].name = "getWorkflowStatuses"
              /\ \A k \in 1..Len(tr) :
                    /\ tr[k].kind \notin {"perm", "gate"}
                    /\ tr[k].err # "UnauthorizedError"
                    /\ tr[k].http # 403
              /\ (Ended(r) /\ ~Some(tr, IsFacadeFailed))
                 => /\ Len(tr) = 3
                    /\ tr[2] = facadeCall("getWorkflowStatuses", <<>>, "ok")
                    /\ IsSent(tr[3]) /\ tr[3].http = 200 /\ tr[3].name = "statuses"

\* a caller without any permission gets the statuses
C29_Witness ==
    \E r \in Requests :
        /\ op[r] = "getWorkflowStatuses" /\ pc[r] = "done" /\ grants = {}
        /\ Some(trace[r], LAMBDA e : IsSent(e) /\ e.http = 200 /\ e.name = "statuses")

====
